---- MODULE Spec2Model ----
(***************************************************************************)
(* Model of the two conversion utilities of the repository:                *)
(*                                                                         *)
(*   Scripts/convert_qwen_tts_coreml.py     (main, validate,               *)
(*                                            CodecDecoderWrapper)         *)
(*   Scripts/extract_speaker_embeddings.py  (main)                         *)
(*                                                                         *)
(* Each script is a sequential program; `pc` is its position.  The calls   *)
(* into third-party libraries (torch.jit.trace, ct.convert, predict,       *)
(* save, create_voice_clone_prompt) are modelled by their possible         *)
(* outcomes: they return, or they raise and the run ends with a traceback. *)
(* `events` is the ordered list of the file-system writes and validate()   *)
(* returns of the run.                                                     *)
(*                                                                         *)
(* Floating-point samples are fixed-point numbers in units of 1e-6, plus   *)
(* NaN, with IEEE comparison (every ordered comparison with NaN is false). *)
(***************************************************************************)
EXTENDS Integers, Sequences, FiniteSets

VARIABLES
    pc,               \* position of the running script
    exit_status,      \* -1 while running, else the process exit status
    events,           \* writes to the output directory / validate() returns, in order
    \* ---- convert_qwen_tts_coreml.main
    bucket_durations, \* [int(b) for b in args.buckets.split(",")]
    skip_validation,  \* args.skip_validation
    idx,              \* position of the for loop in bucket_durations (1-based)
    T,                \* frame count of the current bucket
    mlmodel,          \* the converted model of the current bucket
    val,              \* what the last validate() call measured and returned
    all_passed,
    metadata,         \* metadata["buckets"]: key -> entry
    metadata_json,    \* what this run wrote to metadata.json
    \* ---- extract_speaker_embeddings.main
    clips_dir_exists, \* clips_dir.is_dir()
    clips,            \* the .wav files of the clips directory: number -> kind
    same_dir,         \* output_dir is the clips directory
    out_dir0,         \* the output directory existed before the run
    voices_json0,     \* voices.json before the run
    out_dir_exists,
    voices_json,      \* voices.json: absent, an older run's, or the catalog written
    wav_files,        \* sorted(clips_dir.glob("*.wav"))
    wav_idx,          \* position of the for loop in wav_files (1-based)
    voices,
    \* ---- CodecDecoderWrapper
    modules,          \* the module objects: id -> [kind, training, children]
    modules0,         \* the module objects as load_decoder() returned them
    wrapped           \* CodecDecoderWrapper(decoder) has been constructed

convertVars == <<bucket_durations, skip_validation, idx, T, mlmodel, val, all_passed, metadata,
                 metadata_json>>
extractVars == <<clips_dir_exists, clips, same_dir, out_dir0, voices_json0, out_dir_exists,
                 voices_json, wav_files, wav_idx, voices>>
wrapperVars == <<modules, modules0, wrapped>>
vars == <<pc, exit_status, events, convertVars, extractVars, wrapperVars>>

----------------------------------------------------------------------------
(* Bounds of the model *)

MaxBuckets == 2      \* longest --buckets list
MaxCustomDur == 2    \* custom (not predefined) durations are 1..MaxCustomDur
NumSamples == 2      \* samples per modelled output array
MaxClips == 3        \* most .wav files in the clips directory
MaxModules == 3      \* module objects under (and including) the decoder

----------------------------------------------------------------------------
(* Program constants of convert_qwen_tts_coreml.py *)

FRAME_RATE_HZ == 12
SAMPLES_PER_FRAME == 1920
SAMPLE_RATE == 24000
NUM_CODEBOOKS == 16

\* BUCKETS, as the set of its (duration, frames) pairs
BUCKETS == { <<3, 38>>, <<10, 125>>, <<30, 375>>, <<45, 563>> }

\* tolerance = 0.01 and the silence threshold 1e-6, in units of 1e-6
TOLERANCE == 10000
RMS_MIN == 1

BucketKeys == { b[1] : b \in BUCKETS }

\* BUCKETS.get(dur): the frames of a predefined bucket, -1 for None
BucketsGet(dur) ==
    IF dur \in BucketKeys THEN (CHOOSE b \in BUCKETS : b[1] = dur)[2] ELSE -1

\* T = BUCKETS.get(dur); if T is None: T = dur * FRAME_RATE_HZ
FramesFor(dur) ==
    IF BucketsGet(dur) = -1 THEN dur * FRAME_RATE_HZ ELSE BucketsGet(dur)

\* f"{name}.mlpackage" with name = f"qwen_tts_codec_decoder_{dur}s"
FileName(dur) == [stem |-> "qwen_tts_codec_decoder_", n |-> dur, ext |-> "s.mlpackage"]
\* the key f"{dur}s" of metadata["buckets"]
BucketKey(dur) == [n |-> dur, ext |-> "s"]
MetadataFile == [stem |-> "metadata", n |-> 0, ext |-> ".json"]
\* output_dir itself
OutputDir == [stem |-> "", n |-> 0, ext |-> ""]

\* the entry main records for a bucket; duration_sec = T / FRAME_RATE_HZ is kept
\* as the exact fraction num/den
BucketEntry(dur, frames) ==
    [ frames         |-> frames,
      output_samples |-> frames * SAMPLES_PER_FRAME,
      duration_sec   |-> [num |-> frames, den |-> FRAME_RATE_HZ],
      file           |-> FileName(dur) ]

----------------------------------------------------------------------------
(* Floating point, as validate() uses it *)

NaN == [nan |-> TRUE, v |-> 0]
F(x) == [nan |-> FALSE, v |-> x]

FSub(a, b) == IF a.nan \/ b.nan THEN NaN ELSE F(a.v - b.v)
FAbs(a) == IF a.nan THEN NaN ELSE F(IF a.v < 0 THEN -a.v ELSE a.v)
FSquare(a) == IF a.nan THEN NaN ELSE F(a.v * a.v)
FAdd(a, b) == IF a.nan \/ b.nan THEN NaN ELSE F(a.v + b.v)
\* a > b and a < b: false when either side is NaN
FGt(a, b) == ~a.nan /\ ~b.nan /\ a.v > b.v
FLt(a, b) == ~a.nan /\ ~b.nan /\ a.v < b.v

\* np.max(arr): NaN if any element is NaN
RECURSIVE NpMax(_)
NpMax(arr) ==
    IF Len(arr) = 1 THEN arr[1]
    ELSE LET rest == NpMax(Tail(arr)) IN
         IF arr[1].nan \/ rest.nan THEN NaN
         ELSE IF arr[1].v > rest.v THEN arr[1] ELSE rest

RECURSIVE SumSquares(_)
SumSquares(arr) ==
    IF arr = <<>> THEN F(0) ELSE FAdd(FSquare(arr[1]), SumSquares(Tail(arr)))

\* max_diff = np.max(np.abs(pt_out - cm_out))
MaxDiff(pt_out, cm_out) ==
    NpMax([k \in 1..Len(pt_out) |-> FAbs(FSub(pt_out[k], cm_out[k]))])

\* max_diff > tolerance
ParityFailed(max_diff) == FGt(max_diff, F(TOLERANCE))

\* rms = np.sqrt(np.mean(cm_out ** 2)); rms < 1e-6.  The square root is monotone,
\* so rms < 1e-6 is decided on the sum of squares: sum < n * (1e-6)^2.
IsSilent(cm_out) ==
    FLt(SumSquares(cm_out), F(Len(cm_out) * RMS_MIN * RMS_MIN))

\* the value validate() returns once both shape assertions have passed
ValidateReturn(pt_out, cm_out) ==
    IF ParityFailed(MaxDiff(pt_out, cm_out)) THEN FALSE
    ELSE IF IsSilent(cm_out) THEN FALSE
    ELSE TRUE

\* the two shape assertions of validate()
ShapesOk(pt_len, cm_len, frames) ==
    /\ pt_len = frames * SAMPLES_PER_FRAME
    /\ cm_len = frames * SAMPLES_PER_FRAME

\* (mutant) the last validation's result overwrites the earlier ones
AllPassedAfter_LastWins(ap, passed) == passed

\* passed = validate(...); if not passed: all_passed = False
AllPassedAfter(ap, passed) == IF ~passed THEN FALSE ELSE ap

\* if not all_passed: sys.exit(1)
ExitStatus(ap) == IF ~ap THEN 1 ELSE 0

\* (mutant) the loop stops one bucket early
LoopDone_OffByOne(k, durs) == k >= Len(durs)

\* the for loop over bucket_durations is exhausted
LoopDone(k, durs) == k > Len(durs)

----------------------------------------------------------------------------
(* extract_speaker_embeddings.py *)

WavName(n) == [stem |-> "voice_", n |-> n, ext |-> ".wav"]
NpyName(n) == [stem |-> "voice_", n |-> n, ext |-> ".npy"]
VoicesFile == [stem |-> "voices", n |-> 0, ext |-> ".json"]

NoCatalog == [state |-> "absent", catalog |-> <<>>]
OldCatalog == [state |-> "old", catalog |-> <<>>]
\* catalog_path.write_text(json.dumps(voices, indent=2))
WrittenCatalog(vs) == [state |-> "written", catalog |-> vs]

\* sorted(...): the .wav files in ascending order of their names
RECURSIVE Sorted(_)
Sorted(S) ==
    IF S = {} THEN <<>>
    ELSE LET m == CHOOSE x \in S : \A y \in S : x <= y IN <<m>> \o Sorted(S \ {m})

\* str.strip(): leading and trailing whitespace removed
RECURSIVE LStrip(_)
LStrip(text) ==
    IF text # <<>> /\ Head(text) = " " THEN LStrip(Tail(text)) ELSE text
RECURSIVE RStrip(_)
RStrip(text) ==
    IF text # <<>> /\ text[Len(text)] = " "
    THEN RStrip(SubSeq(text, 1, Len(text) - 1)) ELSE text
\* (mutant) the transcript is used as read, without .strip()
Strip_Missing(text) == text

Strip(text) == RStrip(LStrip(text))

\* if not clips_dir.is_dir()
ClipsDirMissing(exists) == ~exists
\* (mutant) the empty-directory check is missing
NoWavs_Unchecked(wavs) == FALSE

\* if not wav_files
NoWavs(wavs) == wavs = <<>>

\* (mutant) the empty-catalog check is missing
NoVoices_Unchecked(vs) == FALSE

\* if not voices
NoVoices(vs) == vs = <<>>
\* if wav_dest != wav_path
CopyNeeded(same) == ~same

\* the catalog entry of a processed clip
VoiceEntry(n, transcript) ==
    [ name            |-> n,
      embedding_file  |-> NpyName(n),
      reference_audio |-> WavName(n),
      transcript      |-> transcript ]

----------------------------------------------------------------------------
(* Inputs *)

Range(seq) == { seq[k] : k \in 1..Len(seq) }

Durations == BucketKeys \cup (1..MaxCustomDur)
BucketLists == UNION { [1..n -> Durations] : n \in 1..MaxBuckets }

PtSamples == { F(0), F(1) }
CmSamples == { F(0), F(1), F(TOLERANCE + 1), NaN }
PtArrays == [1..NumSamples -> PtSamples]
CmArrays == [1..NumSamples -> CmSamples]

NoModel == [frames |-> 0, out_samples |-> 0]
NoVal == [called |-> FALSE, max_diff |-> F(0), sumsq |-> F(0), ret |-> FALSE]

\* the metadata dict of main, around its "buckets"
MetadataDict(buckets) ==
    [ written           |-> TRUE,
      sample_rate       |-> SAMPLE_RATE,
      frame_rate_hz     |-> FRAME_RATE_HZ,
      samples_per_frame |-> SAMPLES_PER_FRAME,
      num_codebooks     |-> NUM_CODEBOOKS,
      buckets           |-> buckets ]

Event(op, file, ok) == [op |-> op, file |-> file, ok |-> ok]

EmptyMap == [k \in {} |-> 0]
NotWritten == [MetadataDict(EmptyMap) EXCEPT !.written = FALSE]

ExtractIdle ==
    /\ clips_dir_exists = FALSE
    /\ clips = EmptyMap
    /\ same_dir = FALSE
    /\ out_dir0 = FALSE
    /\ voices_json0 = NoCatalog
    /\ out_dir_exists = FALSE
    /\ voices_json = NoCatalog
    /\ wav_files = <<>>
    /\ wav_idx = 0
    /\ voices = <<>>

WrapperIdle ==
    /\ modules = EmptyMap
    /\ modules0 = EmptyMap
    /\ wrapped = FALSE

ConvertIdle ==
    /\ bucket_durations = <<>>
    /\ skip_validation = FALSE
    /\ idx = 0
    /\ T = 0
    /\ mlmodel = NoModel
    /\ val = NoVal
    /\ all_passed = TRUE
    /\ metadata = EmptyMap
    /\ metadata_json = NotWritten

----------------------------------------------------------------------------
(* convert_qwen_tts_coreml.main *)

InitConvert ==
    /\ pc = "c_start"
    /\ exit_status = -1
    /\ events = <<>>
    /\ bucket_durations \in BucketLists
    /\ skip_validation \in BOOLEAN
    /\ idx = 0
    /\ T = 0
    /\ mlmodel = NoModel
    /\ val = NoVal
    /\ all_passed = TRUE
    /\ metadata = EmptyMap
    /\ metadata_json = NotWritten
    /\ ExtractIdle
    /\ WrapperIdle

\* an uncaught exception: traceback, exit status 1
Raise ==
    /\ pc' = "raised"
    /\ exit_status' = 1

\* lines 194-214: output_dir.mkdir, load and wrap, empty metadata, all_passed = True
ConvertSetup ==
    /\ pc = "c_start"
    /\ pc' = "c_for"
    /\ idx' = 1
    /\ all_passed' = TRUE
    /\ metadata' = EmptyMap
    /\ events' = Append(events, Event("mkdir", OutputDir, TRUE))
    /\ UNCHANGED <<exit_status, bucket_durations, skip_validation, T, mlmodel, val, metadata_json>>
    /\ UNCHANGED <<extractVars, wrapperVars>>

\* lines 216-225: the next bucket's frame count
ResolveBucket ==
    /\ pc = "c_for"
    /\ ~LoopDone(idx, bucket_durations)
    /\ T' = FramesFor(bucket_durations[idx])
    /\ pc' = "c_trace"
    /\ mlmodel' = NoModel
    /\ val' = NoVal
    /\ UNCHANGED <<exit_status, events, bucket_durations, skip_validation, idx,
                   all_passed, metadata, metadata_json>>
    /\ UNCHANGED <<extractVars, wrapperVars>>

\* trace_decoder: the strict trace, then strict=False, then the exception is re-raised
TraceDecoder ==
    /\ pc = "c_trace"
    /\ \E outcome \in {"strict", "nonstrict", "raise"} :
         IF outcome = "raise"
         THEN Raise
         ELSE pc' = "c_convert" /\ exit_status' = exit_status
    /\ UNCHANGED <<events, convertVars, extractVars, wrapperVars>>

\* convert_to_coreml: ct.convert returns a model (whose waveform output has some
\* length) or raises
ConvertToCoreml ==
    /\ pc = "c_convert"
    /\ \/ /\ Raise
          /\ UNCHANGED mlmodel
       \/ /\ \E n \in {T * SAMPLES_PER_FRAME, T * SAMPLES_PER_FRAME - 1} :
               mlmodel' = [frames |-> T, out_samples |-> n]
          /\ pc' = IF skip_validation THEN "c_save" ELSE "c_validate"
          /\ UNCHANGED exit_status
    /\ UNCHANGED <<events, bucket_durations, skip_validation, idx, T, val,
                   all_passed, metadata, metadata_json>>
    /\ UNCHANGED <<extractVars, wrapperVars>>

\* lines 230-233 with validate(): the shape assertions, then the two checks
Validate ==
    /\ pc = "c_validate"
    /\ \E pt_len \in {T * SAMPLES_PER_FRAME, T * SAMPLES_PER_FRAME - 1} :
         IF ~ShapesOk(pt_len, mlmodel.out_samples, T)
         THEN \* AssertionError
              /\ Raise
              /\ UNCHANGED <<val, all_passed, events>>
         ELSE \E pt_out \in PtArrays, cm_out \in CmArrays :
              LET ret == ValidateReturn(pt_out, cm_out) IN
              /\ val' = [called |-> TRUE, max_diff |-> MaxDiff(pt_out, cm_out),
                         sumsq |-> SumSquares(cm_out), ret |-> ret]
              /\ all_passed' = AllPassedAfter(all_passed, ret)
              /\ events' = Append(events,
                                  Event("validate", FileName(bucket_durations[idx]), ret))
              /\ pc' = "c_save"
              /\ UNCHANGED exit_status
    /\ UNCHANGED <<bucket_durations, skip_validation, idx, T, mlmodel, metadata, metadata_json>>
    /\ UNCHANGED <<extractVars, wrapperVars>>

\* lines 235-243: mlmodel.save, then the bucket's metadata entry
SaveAndRecord ==
    /\ pc = "c_save"
    /\ val' = NoVal  \* validate()'s measurements do not outlive the call
    /\ \/ /\ Raise
          /\ UNCHANGED <<events, metadata, idx>>
       \/ LET dur == bucket_durations[idx]
              key == BucketKey(dur) IN
          /\ events' = Append(events, Event("save", FileName(dur), TRUE))
          /\ metadata' = [k \in DOMAIN metadata \cup {key} |->
                            IF k = key THEN BucketEntry(dur, T) ELSE metadata[k]]
          /\ idx' = idx + 1
          /\ pc' = "c_for"
          /\ UNCHANGED exit_status
    /\ UNCHANGED <<bucket_durations, skip_validation, T, mlmodel, all_passed, metadata_json>>
    /\ UNCHANGED <<extractVars, wrapperVars>>

\* lines 245-248: metadata.json
WriteMetadata ==
    /\ pc = "c_for"
    /\ LoopDone(idx, bucket_durations)
    /\ events' = Append(events, Event("write", MetadataFile, TRUE))
    /\ metadata_json' = MetadataDict(metadata)
    /\ pc' = "c_exit"
    /\ UNCHANGED <<exit_status, bucket_durations, skip_validation, idx, T, mlmodel, val,
                   all_passed, metadata>>
    /\ UNCHANGED <<extractVars, wrapperVars>>

\* lines 250-254
ConvertExit ==
    /\ pc = "c_exit"
    /\ exit_status' = ExitStatus(all_passed)
    /\ pc' = "c_done"
    /\ UNCHANGED <<events, convertVars, extractVars, wrapperVars>>

NextConvert ==
    \/ ConvertSetup
    \/ ResolveBucket
    \/ TraceDecoder
    \/ ConvertToCoreml
    \/ Validate
    \/ SaveAndRecord
    \/ WriteMetadata
    \/ ConvertExit

SpecConvert == InitConvert /\ [][NextConvert]_vars

----------------------------------------------------------------------------
(* extract_speaker_embeddings.main *)

\* transcripts: empty, whitespace only, text, text with surrounding whitespace
Texts == { <<>>, <<" ">>, <<"a">>, <<" ", "a">>, <<"a", " ">> }
\* a .wav of the clips directory: whether its .txt exists, what the .txt holds, and
\* whether the audio can be read and encoded
ClipFiles ==
    { [has_txt |-> FALSE, text |-> <<>>, audio_ok |-> TRUE] }
    \cup { [has_txt |-> TRUE, text |-> t, audio_ok |-> TRUE] : t \in Texts }
    \cup { [has_txt |-> TRUE, text |-> <<"a">>, audio_ok |-> FALSE] }
ClipDirs == UNION { [S -> ClipFiles] : S \in SUBSET (1..MaxClips) }

InitExtract ==
    /\ pc = "x_start"
    /\ exit_status = -1
    /\ events = <<>>
    /\ clips_dir_exists \in BOOLEAN
    /\ clips \in ClipDirs
    /\ ~clips_dir_exists => clips = EmptyMap
    /\ same_dir \in BOOLEAN
    /\ out_dir0 \in BOOLEAN
    /\ same_dir => out_dir0 = clips_dir_exists
    /\ voices_json0 \in {NoCatalog, OldCatalog}
    /\ ~out_dir0 => voices_json0 = NoCatalog
    /\ out_dir_exists = out_dir0
    /\ voices_json = voices_json0
    /\ wav_files = <<>>
    /\ wav_idx = 0
    /\ voices = <<>>
    /\ ConvertIdle
    /\ WrapperIdle

\* raise SystemExit(1)
SystemExit(at) ==
    /\ pc' = at
    /\ exit_status' = 1

\* lines 84-87
CheckClipsDir ==
    /\ pc = "x_start"
    /\ IF ClipsDirMissing(clips_dir_exists)
       THEN SystemExit("x_exit_no_dir")
       ELSE pc' = "x_mkdir" /\ UNCHANGED exit_status
    /\ UNCHANGED <<events, convertVars, extractVars, wrapperVars>>

\* lines 89-92: output_dir.mkdir(parents=True, exist_ok=True)
MakeOutputDir ==
    /\ pc = "x_mkdir"
    /\ out_dir_exists' = TRUE
    /\ events' = Append(events, Event("mkdir", OutputDir, TRUE))
    /\ pc' = "x_glob"
    /\ UNCHANGED <<exit_status, clips_dir_exists, clips, same_dir, out_dir0, voices_json0,
                   voices_json, wav_files, wav_idx, voices>>
    /\ UNCHANGED <<convertVars, wrapperVars>>

\* lines 94-102: the sorted .wav files, load_model(), voices = []
FindWavFiles ==
    /\ pc = "x_glob"
    /\ wav_files' = Sorted(DOMAIN clips)
    /\ IF NoWavs(wav_files')
       THEN SystemExit("x_exit_no_wav") /\ UNCHANGED <<wav_idx, voices>>
       ELSE /\ pc' = "x_for"
            /\ wav_idx' = 1
            /\ voices' = <<>>
            /\ UNCHANGED exit_status
    /\ UNCHANGED <<events, clips_dir_exists, clips, same_dir, out_dir0, voices_json0,
                   out_dir_exists, voices_json>>
    /\ UNCHANGED <<convertVars, wrapperVars>>

\* lines 103-138: one iteration of the loop over wav_files
ProcessClip ==
    /\ pc = "x_for"
    /\ ~LoopDone(wav_idx, wav_files)
    /\ LET n == wav_files[wav_idx]
           clip == clips[n]
           transcript == Strip(clip.text) IN
       IF ~clip.has_txt \/ transcript = <<>>
       THEN \* "Skipping ..."; continue
            /\ wav_idx' = wav_idx + 1
            /\ UNCHANGED <<pc, exit_status, events, voices>>
       ELSE IF ~clip.audio_ok
       THEN \* extract_embedding raises
            /\ Raise
            /\ UNCHANGED <<events, wav_idx, voices>>
       ELSE /\ events' = events
                   \o <<Event("np.save", NpyName(n), TRUE)>>
                   \o (IF CopyNeeded(same_dir)
                       THEN <<Event("copy2", WavName(n), TRUE)>> ELSE <<>>)
            /\ voices' = Append(voices, VoiceEntry(n, transcript))
            /\ wav_idx' = wav_idx + 1
            /\ UNCHANGED <<pc, exit_status>>
    /\ UNCHANGED <<clips_dir_exists, clips, same_dir, out_dir0, voices_json0,
                   out_dir_exists, voices_json, wav_files>>
    /\ UNCHANGED <<convertVars, wrapperVars>>

\* lines 140-143: voices.json
WriteCatalog ==
    /\ pc = "x_for"
    /\ LoopDone(wav_idx, wav_files)
    /\ voices_json' = WrittenCatalog(voices)
    /\ events' = Append(events, Event("write", VoicesFile, TRUE))
    /\ pc' = "x_check"
    /\ UNCHANGED <<exit_status, clips_dir_exists, clips, same_dir, out_dir0, voices_json0,
                   out_dir_exists, wav_files, wav_idx, voices>>
    /\ UNCHANGED <<convertVars, wrapperVars>>

\* lines 145-149
ExtractExit ==
    /\ pc = "x_check"
    /\ IF NoVoices(voices)
       THEN SystemExit("x_exit_no_voices")
       ELSE pc' = "x_done" /\ exit_status' = 0
    /\ UNCHANGED <<events, convertVars, extractVars, wrapperVars>>

NextExtract ==
    \/ CheckClipsDir
    \/ MakeOutputDir
    \/ FindWavFiles
    \/ ProcessClip
    \/ WriteCatalog
    \/ ExtractExit

SpecExtract == InitExtract /\ [][NextExtract]_vars

----------------------------------------------------------------------------
(* CodecDecoderWrapper *)

\* the attribute names of a module's _modules dict, in insertion order
AttrNames == <<"a", "b">>
Attrs == Range(AttrNames)

\* a child attribute holds None (0), a module object (its id) or an nn.Identity()
\* made by _replace_dropout
NONE == 0
IDENTITY == -1
DECODER == 1

IsDropout(h, m) == m \in DOMAIN h /\ h[m].kind = "Dropout"

\* the module objects reachable from m through child attributes, m included
RECURSIVE Reach(_, _)
Reach(h, m) ==
    {m} \cup UNION { Reach(h, h[m].children[a]) :
                       a \in { x \in Attrs : h[m].children[x] \in DOMAIN h } }

\* _replace_dropout(module): the loop over module.named_children() from the k-th
\* attribute on.  named_children() skips None and yields each module object once:
\* memo holds the objects it has yielded.
RECURSIVE ReplaceDropoutFrom(_, _, _, _)
ReplaceDropoutFrom(h, m, k, memo) ==
    IF k > Len(AttrNames) THEN h
    ELSE LET name == AttrNames[k]
             child == h[m].children[name] IN
         IF child = NONE \/ child \in memo
         THEN ReplaceDropoutFrom(h, m, k + 1, memo)
         ELSE IF child = IDENTITY
         THEN ReplaceDropoutFrom(h, m, k + 1, memo)
         ELSE IF IsDropout(h, child)
         THEN ReplaceDropoutFrom([h EXCEPT ![m].children[name] = IDENTITY],
                                 m, k + 1, memo \cup {child})
         ELSE ReplaceDropoutFrom(ReplaceDropoutFrom(h, child, 1, {}),
                                 m, k + 1, memo \cup {child})

ReplaceDropout(h, m) == ReplaceDropoutFrom(h, m, 1, {})

\* module.eval(): training = False on the module and everything under it
Eval(h, m) ==
    [i \in DOMAIN h |-> IF i \in Reach(h, m) THEN [h[i] EXCEPT !.training = FALSE] ELSE h[i]]

NoChildren == [a \in Attrs |-> NONE]
\* module i: an nn.Dropout (no children) or another module whose child attributes
\* hold None or later objects (the module graph has no cycle)
ModuleObjects(i, training) ==
    { [kind |-> "Module", training |-> training, children |-> c] :
        c \in [Attrs -> {NONE} \cup ((i + 1)..MaxModules)] }
    \cup (IF i = DECODER THEN {}
          ELSE { [kind |-> "Dropout", training |-> training, children |-> NoChildren] })

InitWrapper ==
    /\ pc = "w_start"
    /\ exit_status = -1
    /\ events = <<>>
    /\ \E training \in BOOLEAN :
         /\ modules \in [1..MaxModules -> UNION { ModuleObjects(i, training) : i \in 1..MaxModules }]
         /\ \A i \in 1..MaxModules : modules[i] \in ModuleObjects(i, training)
    /\ modules0 = modules
    /\ wrapped = FALSE
    /\ ConvertIdle
    /\ ExtractIdle

\* CodecDecoderWrapper.__init__, lines 49-53
ConstructWrapper ==
    /\ pc = "w_start"
    /\ modules' = Eval(ReplaceDropout(modules, DECODER), DECODER)
    /\ wrapped' = TRUE
    /\ pc' = "w_wrapped"
    /\ UNCHANGED <<exit_status, events, modules0, convertVars, extractVars>>

NextWrapper == ConstructWrapper

SpecWrapper == InitWrapper /\ [][NextWrapper]_vars

----------------------------------------------------------------------------
(* Claims about convert_qwen_tts_coreml.py *)

EventsAt(op) == { k \in 1..Len(events) : events[k].op = op }
ValidateFailed == \E k \in EventsAt("validate") : ~events[k].ok
MetadataWrites == { k \in EventsAt("write") : events[k].file = MetadataFile }
SavesBefore(k) == { j \in EventsAt("save") : j < k }
SavedBefore(file, k) == \E j \in SavesBefore(k) : events[j].file = file

\* C1: a run of convert main in which every bucket was traced, converted and saved
\* without an exception exits with status 1 exactly when validation was not skipped
\* and validate() returned False for some bucket, and with status 0 otherwise.
C1_ExitStatus ==
    pc = "c_done" =>
        /\ exit_status \in {0, 1}
        /\ exit_status = 1 <=> (~skip_validation /\ ValidateFailed)

\* a finished run of two buckets whose first validation failed and whose last passed
C1_Witness ==
    /\ pc = "c_done"
    /\ exit_status = 1
    /\ Len(bucket_durations) = 2
    /\ Cardinality(EventsAt("validate")) = 2
    /\ \E k \in EventsAt("validate") :
         /\ events[k].ok
         /\ \E j \in EventsAt("validate") : j < k /\ ~events[j].ok

\* C3: metadata.json is written at most once and only after every requested bucket was
\* processed; what is written holds exactly one bucket entry per distinct requested
\* duration, each naming an .mlpackage saved earlier in the run; a run in which a
\* trace, conversion or validation raised writes no metadata.json.
C3_MetadataAfterAllBuckets ==
    /\ Cardinality(MetadataWrites) <= 1
    /\ metadata_json.written <=> MetadataWrites # {}
    /\ \A k \in MetadataWrites :
         /\ Cardinality(SavesBefore(k)) = Len(bucket_durations)
         /\ \A i \in 1..Len(bucket_durations) :
              SavedBefore(FileName(bucket_durations[i]), k)
         /\ DOMAIN metadata_json.buckets = { BucketKey(d) : d \in Range(bucket_durations) }
         /\ Cardinality(DOMAIN metadata_json.buckets) = Cardinality(Range(bucket_durations))
         /\ \A key \in DOMAIN metadata_json.buckets :
              SavedBefore(metadata_json.buckets[key].file, k)
    /\ pc = "raised" => (MetadataWrites = {} /\ ~metadata_json.written)

\* metadata.json written for a two-bucket request of one duration twice, after a
\* failed validation
C3_Witness ==
    /\ metadata_json.written
    /\ Len(bucket_durations) = 2
    /\ bucket_durations[1] = bucket_durations[2]
    /\ ValidateFailed

\* C5: the numbers recorded for a bucket agree: output_samples = frames *
\* samples_per_frame, frame_rate_hz * samples_per_frame = sample_rate, duration_sec is
\* output_samples / sample_rate, and output_samples * frame_rate_hz = frames * sample_rate.
C5_MetadataNumbersAgree ==
    metadata_json.written =>
        \A key \in DOMAIN metadata_json.buckets :
            LET e == metadata_json.buckets[key] IN
            /\ e.output_samples = e.frames * metadata_json.samples_per_frame
            /\ metadata_json.frame_rate_hz * metadata_json.samples_per_frame
                   = metadata_json.sample_rate
            /\ e.duration_sec.num * metadata_json.sample_rate
                   = e.output_samples * e.duration_sec.den
            /\ e.output_samples * metadata_json.frame_rate_hz
                   = e.frames * metadata_json.sample_rate

\* C6: the frame count selected for a requested duration gives a waveform at least
\* that long at 24 kHz: T * 1920 >= dur * 24000.
C6_BucketCoversDuration ==
    pc \in {"c_trace", "c_convert", "c_validate", "c_save"} =>
        T * SAMPLES_PER_FRAME >= bucket_durations[idx] * SAMPLE_RATE

WithinTolerance(max_diff) == ~max_diff.nan /\ max_diff.v <= TOLERANCE
RmsAtLeastMin(sumsq) == ~sumsq.nan /\ sumsq.v >= NumSamples * RMS_MIN * RMS_MIN

\* C9: validate() returns True only if the maximum absolute difference is within the
\* tolerance and the RMS of the CoreML output is at least 1e-6; with validation
\* enabled a model whose output length is not T * 1920 never gets past validate().
C9_ValidateVerdict ==
    /\ (val.called /\ val.ret) =>
           (WithinTolerance(val.max_diff) /\ RmsAtLeastMin(val.sumsq))
    /\ (~skip_validation /\ mlmodel # NoModel
            /\ mlmodel.out_samples # mlmodel.frames * SAMPLES_PER_FRAME) =>
           pc \in {"c_validate", "raised"}

----------------------------------------------------------------------------
(* Claims about extract_speaker_embeddings.py *)

Exited == exit_status # -1
WavNumbers == DOMAIN clips
IsBlank(text) == \A k \in 1..Len(text) : text[k] = " "
\* the clips with an existing .txt transcript of non-blank content
Usable == { n \in WavNumbers : clips[n].has_txt /\ ~IsBlank(clips[n].text) }
CatalogWrites == { k \in EventsAt("write") : events[k].file = VoicesFile }
Listed == { voices_json.catalog[k].name : k \in 1..Len(voices_json.catalog) }

\* C2 (as claimed): main exits with a nonzero status whenever the clips directory
\* does not exist, holds no .wav file, or holds a .wav file without a .txt transcript.
C2_MissingFileExitsNonzero ==
    (Exited /\ (\/ ~clips_dir_exists
                \/ WavNumbers = {}
                \/ \E n \in WavNumbers : ~clips[n].has_txt))
        => exit_status # 0

\* C2 (amended): main exits with a nonzero status whenever the clips directory does
\* not exist, holds no .wav file, or holds no .wav file with a non-blank .txt
\* transcript.
C2_NoInputExitsNonzero ==
    (Exited /\ (\/ ~clips_dir_exists
                \/ WavNumbers = {}
                \/ Usable = {}))
        => exit_status = 1

\* every .wav was skipped (a missing and a blank transcript) and the run has exited
C2_Witness ==
    /\ pc = "x_exit_no_voices"
    /\ exit_status = 1
    /\ \E n \in WavNumbers : ~clips[n].has_txt
    /\ \E n \in WavNumbers : clips[n].has_txt /\ clips[n].text = <<" ">>

\* C4: once voices.json is written it lists exactly the .wav files with an existing
\* non-blank .txt transcript, each once and in sorted order; the .npy of every listed
\* voice was saved before voices.json was written; for a skipped clip no .npy is
\* written and no .wav is copied.
C4_CatalogListsUsableClips ==
    voices_json.state = "written" =>
        /\ Listed = Usable
        /\ Len(voices_json.catalog) = Cardinality(Usable)
        /\ \A j, k \in 1..Len(voices_json.catalog) :
             j < k => voices_json.catalog[j].name < voices_json.catalog[k].name
        /\ \A k \in 1..Len(voices_json.catalog) :
             LET v == voices_json.catalog[k] IN
             /\ v.embedding_file = NpyName(v.name)
             /\ v.reference_audio = WavName(v.name)
             /\ \E w \in CatalogWrites : \E j \in EventsAt("np.save") :
                  j < w /\ events[j].file = v.embedding_file
        /\ \A n \in WavNumbers \ Usable :
             /\ ~\E j \in EventsAt("np.save") : events[j].file = NpyName(n)
             /\ ~\E j \in EventsAt("copy2") : events[j].file = WavName(n)

\* a catalog written for three clips: no transcript, a blank transcript, and text
C4_Witness ==
    /\ voices_json.state = "written"
    /\ Cardinality(WavNumbers) = 3
    /\ \E n \in WavNumbers : ~clips[n].has_txt
    /\ \E n \in WavNumbers : clips[n].has_txt /\ clips[n].text = <<" ">>
    /\ \E n \in WavNumbers : clips[n].has_txt /\ clips[n].text = <<" ", "a">>
    /\ Len(voices_json.catalog) = 1

SystemExits == {"x_exit_no_dir", "x_exit_no_wav", "x_exit_no_voices"}
NothingSaved == EventsAt("np.save") = {} /\ EventsAt("copy2") = {}

\* C7 (as claimed): a run of main that exits with status 1 leaves the output location
\* as it was: the output directory is not created and voices.json is not written.
C7_FailedRunLeavesOutputAlone ==
    (pc \in SystemExits /\ exit_status = 1) =>
        /\ out_dir_exists = out_dir0
        /\ voices_json = voices_json0

\* C7 (amended): of the runs that exit with status 1, only the one that finds no clips
\* directory leaves the output location as it was.  The run that finds no .wav file
\* has created the output directory and leaves voices.json as it was; the run that
\* processed no voice has created the output directory and written voices.json as an
\* empty list.  None of them writes a .npy or copies a .wav.
C7_FailedRunOutput ==
    (pc \in SystemExits /\ exit_status = 1) =>
        /\ NothingSaved
        /\ ~clips_dir_exists =>
               (out_dir_exists = out_dir0 /\ voices_json = voices_json0 /\ events = <<>>)
        /\ (clips_dir_exists /\ WavNumbers = {}) =>
               (out_dir_exists /\ voices_json = voices_json0 /\ CatalogWrites = {})
        /\ (clips_dir_exists /\ WavNumbers # {}) =>
               (out_dir_exists /\ voices_json = WrittenCatalog(<<>>))

\* an exit with status 1 from an empty clips directory, the output directory new
C7_Witness ==
    /\ pc = "x_exit_no_wav"
    /\ exit_status = 1
    /\ ~out_dir0
    /\ out_dir_exists

----------------------------------------------------------------------------
(* Claims about CodecDecoderWrapper *)

\* C8: after CodecDecoderWrapper(decoder) is constructed no nn.Dropout is reachable
\* from the decoder through child attributes at any depth: every Dropout child under
\* every attribute name has been replaced by Identity, and every other module is
\* left in its place.
C8_NoDropoutReachable ==
    wrapped =>
        /\ \A m \in Reach(modules, DECODER) : ~IsDropout(modules, m)
        /\ \A m \in Reach(modules0, DECODER) : \A a \in Attrs :
             LET child == modules0[m].children[a] IN
             IF IsDropout(modules0, child)
             THEN IsDropout(modules0, m) \/ modules[m].children[a] = IDENTITY
             ELSE modules[m].children[a] = child

====
